---- MODULE Spec2Model ----
(***************************************************************************)
(* Model of src/proxy.js: the proxy based copy-on-write drafts of immer.    *)
(* A heap of plain containers (the base graph, the copies, fresh values),  *)
(* the Draft States behind the revocable proxies, the module level         *)
(* registry `proxies`, and the position of every produceProxy call.        *)
(***************************************************************************)
EXTENDS Integers, Sequences, FiniteSets, TLC

\* ---------------------------------------------------------------- bounds
MaxDrafts == 4      \* draft states created in one behaviour
MaxCalls == 2       \* produceProxy invocations in one behaviour (SpecNested)
MaxOps == 3         \* trap invocations in one behaviour (Spec)
NestedOps == 2      \* trap invocations in one behaviour (SpecNested)
MaxFresh == 1       \* containers the producer builds itself (SpecFresh, SpecPlain)
PlainOps == 4       \* trap invocations in one behaviour (SpecPlain)

Keys == {"a", "b"}
DraftIds == 1 .. MaxDrafts
CallIds == 1 .. MaxCalls
BaseObjs == {1, 2, 3, 4}
MaxObj == Cardinality(BaseObjs) + MaxDrafts + MaxFresh
ObjIds == 1 .. MaxObj

\* ---------------------------------------------------------------- values
\* A JavaScript value is a tagged pair: a primitive, undefined, a reference
\* to a plain container of the heap, or a reference to a draft (a proxy).
\* ABSENT marks a key a container does not have.
Prim(n) == <<"p", n>>
UNDEF == <<"u", 0>>
ABSENT == <<"x", 0>>
Obj(i) == <<"o", i>>
Draft(i) == <<"d", i>>

NoFields == [k \in Keys |-> ABSENT]
FreeCell == [kind |-> "free", f |-> NoFields]

\* The base graph: O1 = {a: O2, b: O4}, O2 = {a: O3, b: 1},
\* O3 = {a: undefined, b: 1}, O4 = [1] (a sequence).
BaseHeap ==
    [i \in ObjIds |->
        CASE i = 1 -> [kind |-> "object", f |-> [a |-> Obj(2), b |-> Obj(4)]]
          [] i = 2 -> [kind |-> "object", f |-> [a |-> Obj(3), b |-> Prim(1)]]
          [] i = 3 -> [kind |-> "object", f |-> [a |-> UNDEF, b |-> Prim(1)]]
          [] i = 4 -> [kind |-> "array", f |-> [a |-> Prim(1), b |-> ABSENT]]
          [] OTHER -> FreeCell]

\* o[prop] on a plain container: a missing key reads as undefined.
Read(cell, k) == IF cell.f[k] = ABSENT THEN UNDEF ELSE cell.f[k]
\* prop in o
In(cell, k) == cell.f[k] # ABSENT
OwnKeysOf(cell) == {k \in Keys : cell.f[k] # ABSENT}

\* ------------------------------------------------- helpers of ./common
is(x, y) == x = y
has(fields, k) == fields[k] # ABSENT
isProxy(v) == v[1] = "d"
isProxyable(v) == v[1] = "o"

Alloc(hp) == CHOOSE i \in ObjIds : hp[i].kind = "free" /\ \A j \in 1 .. (i - 1) : hp[j].kind # "free"
\* shallowCopy(base): a new container of the same kind with the same entries
shallowCopy(hp, b) == [hp EXCEPT ![Alloc(hp)] = hp[b]]

\* ---------------------------------------------------------- draft state
\* createState(parent, base); parent 0 is undefined, copy 0 is undefined.
createState(parent, base) ==
    [modified |-> FALSE, finalized |-> FALSE, parent |-> parent, base |-> base,
     copy |-> 0, proxies |-> NoFields]

NoState == [modified |-> FALSE, finalized |-> FALSE, parent |-> 0, base |-> 0,
            copy |-> 0, proxies |-> NoFields]

\* source that never looks at the copy.
source_base(st, d) == st[d].base

\* source(state)
source(st, d) == IF st[d].modified = TRUE THEN st[d].copy ELSE st[d].base

\* Object.assign(copy, proxies)
assign(cell, fields) ==
    [cell EXCEPT !.f = [k \in Keys |-> IF fields[k] # ABSENT THEN fields[k] ELSE cell.f[k]]]

\* markChanged without the shallow copy: copy aliases base.
RECURSIVE markChanged_alias(_, _, _)
markChanged_alias(st, hp, d) ==
    IF ~st[d].modified
    THEN LET hp2 == [hp EXCEPT ![st[d].base] = assign(hp[st[d].base], st[d].proxies)]
             st1 == [st EXCEPT ![d].modified = TRUE, ![d].copy = st[d].base]
         IN IF st[d].parent # 0 THEN markChanged_alias(st1, hp2, st[d].parent)
            ELSE <<st1, hp2>>
    ELSE <<st, hp>>

\* markChanged that does not escalate the parent.
markChanged_noParent(st, hp, d) ==
    IF ~st[d].modified
    THEN LET c == Alloc(hp)
             hp1 == shallowCopy(hp, st[d].base)
             hp2 == [hp1 EXCEPT ![c] = assign(hp1[c], st[d].proxies)]
         IN <<[st EXCEPT ![d].modified = TRUE, ![d].copy = c], hp2>>
    ELSE <<st, hp>>

\* markChanged without Object.assign(state.copy, state.proxies).
RECURSIVE markChanged_noOverlay(_, _, _)
markChanged_noOverlay(st, hp, d) ==
    IF ~st[d].modified
    THEN LET c == Alloc(hp)
             hp1 == shallowCopy(hp, st[d].base)
             st1 == [st EXCEPT ![d].modified = TRUE, ![d].copy = c]
         IN IF st[d].parent # 0 THEN markChanged_noOverlay(st1, hp1, st[d].parent)
            ELSE <<st1, hp1>>
    ELSE <<st, hp>>

\* markChanged that copies again when the state is modified already.
RECURSIVE markChanged_again(_, _, _)
markChanged_again(st, hp, d) ==
    IF ~st[d].modified
    THEN LET c == Alloc(hp)
             hp1 == shallowCopy(hp, st[d].base)
             hp2 == [hp1 EXCEPT ![c] = assign(hp1[c], st[d].proxies)]
             st1 == [st EXCEPT ![d].modified = TRUE, ![d].copy = c]
         IN IF st[d].parent # 0 THEN markChanged_again(st1, hp2, st[d].parent)
            ELSE <<st1, hp2>>
    ELSE <<[st EXCEPT ![d].copy = Alloc(hp)], shallowCopy(hp, st[d].copy)>>

\* markChanged(state): the pair <<states, heap>> after the call.
RECURSIVE markChanged(_, _, _)
markChanged(st, hp, d) ==
    IF ~st[d].modified
    THEN LET c == Alloc(hp)
             hp1 == shallowCopy(hp, st[d].base)
             hp2 == [hp1 EXCEPT ![c] = assign(hp1[c], st[d].proxies)]
             st1 == [st EXCEPT ![d].modified = TRUE, ![d].copy = c]
         IN IF st[d].parent # 0 THEN markChanged(st1, hp2, st[d].parent)
            ELSE <<st1, hp2>>
    ELSE <<st, hp>>

\* ---------------------------------------------------------------- state
VARIABLES
    heap,       \* ObjIds -> plain container (base graph, copies)
    states,     \* DraftIds -> Draft State (the target of each proxy)
    revoked,    \* DraftIds -> has the proxy been revoked
    nDrafts,    \* number of proxies created so far
    regs,       \* CallIds -> the array a call assigned to `proxies`
    proxies,    \* the module level `proxies`: a call's array, 0 is null
    calls,      \* CallIds -> position and locals of a produceProxy call
    stack,      \* the produceProxy calls in progress, innermost last
    opsLeft,    \* trap invocations still allowed in this behaviour
    last,       \* the last trap invocation and what it returned or threw
    meta,       \* DraftIds -> where and when the proxy was created
    hist        \* DraftIds -> the writes and removes made through the proxy

vars == <<heap, states, revoked, nDrafts, regs, proxies, calls, stack, opsLeft, last, meta, hist>>

NoCall == [pc |-> "idle", base |-> 0, root |-> 0, prev |-> 0, ret |-> ABSENT,
           target |-> ABSENT, result |-> ABSENT, err |-> "", nfin |-> 0]
NoLast == [op |-> "", d |-> 0, k |-> "", v |-> ABSENT, res |-> ABSENT, err |-> "",
           flag |-> FALSE, keys |-> {}]
NoMeta == [key |-> "", call |-> 0, during |-> <<>>, pm |-> FALSE]
NoHist == [wrote |-> {}, removed |-> {}, n |-> 0, val |-> NoFields]

\* One produceProxy call and MaxOps trap invocations (Init), or MaxCalls
\* calls, nested or one after the other, and NestedOps trap invocations.
InitWith(nCalls, nTraps) ==
    /\ heap = BaseHeap
    /\ states = [d \in DraftIds |-> NoState]
    /\ revoked = [d \in DraftIds |-> FALSE]
    /\ nDrafts = 0
    /\ regs = [c \in CallIds |-> <<>>]
    /\ proxies = 0
    /\ calls = [c \in CallIds |-> IF c <= nCalls THEN NoCall ELSE [NoCall EXCEPT !.pc = "unused"]]
    /\ stack = <<>>
    /\ opsLeft = nTraps
    /\ last = NoLast
    /\ meta = [d \in DraftIds |-> NoMeta]
    /\ hist = [d \in DraftIds |-> NoHist]

Init == InitWith(1, MaxOps)
InitNested == InitWith(MaxCalls, NestedOps)
InitPlain == InitWith(1, PlainOps)

Top == stack[Len(stack)]
Used == 1 .. nDrafts
\* Code that may touch a draft: the innermost mutation function while it
\* runs, or the caller's code when no produceProxy call is in progress.
Running == IF stack = <<>> THEN TRUE ELSE calls[Top].pc = "mutate"
CanTrap(d) == Running /\ opsLeft > 0 /\ d \in Used /\ ~revoked[d]

\* createProxy(parentState, base): the new proxy is nDrafts + 1; it is
\* pushed on the array `proxies` points to.
createProxy(parent, base, key) ==
    /\ nDrafts < MaxDrafts
    /\ proxies # 0
    /\ nDrafts' = nDrafts + 1
    /\ regs' = [regs EXCEPT ![proxies] = Append(@, nDrafts + 1)]
    /\ meta' = [meta EXCEPT ![nDrafts + 1] = [key |-> key, call |-> proxies, during |-> stack,
                                              pm |-> states[parent].modified]]
    /\ revoked' = revoked

Record(op, d, k, v, res, err, flag, keys) ==
    /\ last' = [op |-> op, d |-> d, k |-> k, v |-> v, res |-> res, err |-> err,
                flag |-> flag, keys |-> keys]
    /\ opsLeft' = opsLeft - 1

\* get(state, prop)
Get(d, k) ==
    /\ CanTrap(d)
    /\ LET s == states[d]
           fresh == Draft(nDrafts + 1)
       IN IF s.modified
          THEN LET value == Read(heap[s.copy], k) IN
               IF value = Read(heap[s.base], k) /\ isProxyable(value)
               THEN IF proxies = 0
                    THEN /\ Record("get", d, k, ABSENT, ABSENT, "TypeError", FALSE, {})
                         /\ UNCHANGED <<heap, states, revoked, nDrafts, regs, meta>>
                    ELSE /\ createProxy(d, value[2], k)
                         /\ states' = [states EXCEPT ![nDrafts + 1] = createState(d, value[2])]
                         /\ heap' = [heap EXCEPT ![s.copy].f[k] = fresh]
                         /\ Record("get", d, k, ABSENT, fresh, "", FALSE, {})
               ELSE /\ Record("get", d, k, ABSENT, value, "", FALSE, {})
                    /\ UNCHANGED <<heap, states, revoked, nDrafts, regs, meta>>
          ELSE IF has(s.proxies, k)
               THEN /\ Record("get", d, k, ABSENT, s.proxies[k], "", FALSE, {})
                    /\ UNCHANGED <<heap, states, revoked, nDrafts, regs, meta>>
               ELSE LET value == Read(heap[s.base], k) IN
                    IF ~isProxy(value) /\ isProxyable(value)
                    THEN IF proxies = 0
                         THEN /\ Record("get", d, k, ABSENT, ABSENT, "TypeError", FALSE, {})
                              /\ UNCHANGED <<heap, states, revoked, nDrafts, regs, meta>>
                         ELSE /\ createProxy(d, value[2], k)
                              /\ states' = [states EXCEPT
                                                ![nDrafts + 1] = createState(d, value[2]),
                                                ![d].proxies[k] = fresh]
                              /\ heap' = heap
                              /\ Record("get", d, k, ABSENT, fresh, "", FALSE, {})
                    ELSE /\ Record("get", d, k, ABSENT, value, "", FALSE, {})
                         /\ UNCHANGED <<heap, states, revoked, nDrafts, regs, meta>>
    /\ UNCHANGED <<proxies, calls, stack, hist>>

\* The test of set() without its second half: a child draft written
\* back to its own key is taken for a change.
sameValue_noCache(s, hp, k, v) == In(hp[s.base], k) /\ is(Read(hp[s.base], k), v)

\* The test of set() that lets a write through without escalating.
sameValue(s, hp, k, v) ==
    \/ In(hp[s.base], k) /\ is(Read(hp[s.base], k), v)
    \/ has(s.proxies, k) /\ s.proxies[k] = v

\* A write the caller would call a no-op: the draft is not yet modified and
\* the value is the one base holds at a key it has, or the child draft
\* already handed out for that key.
NoOpWrite(d, k, v) ==
    /\ ~states[d].modified
    /\ \/ heap[states[d].base].f[k] = v
       \/ (v[1] = "d" /\ v[2] \in Used /\ states[v[2]].parent = d /\ meta[v[2]].key = k)

\* The values a mutation function writes: primitives, undefined, a
\* container of the base graph, any draft handle it holds.
WriteVals == {Prim(1), Prim(2), UNDEF, Obj(2)} \cup {Draft(i) : i \in Used}

\* set(state, prop, value)
Set(d, k, v) ==
    /\ CanTrap(d)
    /\ v \in WriteVals
    /\ LET s == states[d] IN
       IF ~s.modified
       THEN IF sameValue(s, heap, k, v)
            THEN UNCHANGED <<heap, states>>
            ELSE LET mc == markChanged(states, heap, d) IN
                 /\ states' = mc[1]
                 /\ heap' = [mc[2] EXCEPT ![mc[1][d].copy].f[k] = v]
       ELSE /\ heap' = [heap EXCEPT ![s.copy].f[k] = v]
            /\ states' = states
    /\ hist' = IF NoOpWrite(d, k, v) THEN hist
               ELSE [hist EXCEPT ![d].wrote = @ \cup {k}, ![d].removed = @ \ {k},
                                 ![d].n = @ + 1, ![d].val[k] = v]
    /\ Record("set", d, k, v, ABSENT, "", TRUE, {})
    /\ UNCHANGED <<revoked, nDrafts, regs, proxies, calls, stack, meta>>

\* The containers the producer built itself: neither base nor a copy.
FreshObjs ==
    {o \in ObjIds \ BaseObjs :
        heap[o].kind # "free" /\ \A d \in DraftIds : states[d].copy # o}

\* What the producer puts into a container it builds.
FreshInner == {Prim(2)} \cup {Draft(i) : i \in Used}

\* set(state, prop, value) where value is the new plain object {a: inner}
\* the producer has just built.
SetFresh(d, k, inner) ==
    /\ CanTrap(d)
    /\ inner \in FreshInner
    /\ Cardinality(FreshObjs) < MaxFresh
    /\ LET s == states[d]
           o == Alloc(heap)
           hp0 == [heap EXCEPT ![o] = [kind |-> "object",
                                       f |-> [NoFields EXCEPT !["a"] = inner]]]
       IN /\ IF ~s.modified
             THEN IF sameValue(s, hp0, k, Obj(o))
                  THEN heap' = hp0 /\ states' = states
                  ELSE LET mc == markChanged(states, hp0, d) IN
                       /\ states' = mc[1]
                       /\ heap' = [mc[2] EXCEPT ![mc[1][d].copy].f[k] = Obj(o)]
             ELSE /\ heap' = [hp0 EXCEPT ![s.copy].f[k] = Obj(o)]
                  /\ states' = states
          /\ Record("set", d, k, Obj(o), ABSENT, "", TRUE, {})
    /\ hist' = [hist EXCEPT ![d].wrote = @ \cup {k}, ![d].removed = @ \ {k}, ![d].n = @ + 1,
                            ![d].val[k] = Obj(Alloc(heap))]
    /\ UNCHANGED <<revoked, nDrafts, regs, proxies, calls, stack, meta>>

\* deleteProperty that leaves a draft alone when the key is not there.
deleteResult_skipAbsent(st, hp, d, k) ==
    IF ~In(hp[source(st, d)], k) THEN <<st, hp>>
    ELSE LET mc == markChanged(st, hp, d) IN
         <<mc[1], [mc[2] EXCEPT ![mc[1][d].copy].f[k] = ABSENT]>>

\* The body of deleteProperty: markChanged(state); delete state.copy[prop]
deleteResult(st, hp, d, k) ==
    LET mc == markChanged(st, hp, d) IN
    <<mc[1], [mc[2] EXCEPT ![mc[1][d].copy].f[k] = ABSENT]>>

\* deleteProperty(state, prop)
DeleteProperty(d, k) ==
    /\ CanTrap(d)
    /\ LET r == deleteResult(states, heap, d, k) IN
       /\ states' = r[1]
       /\ heap' = r[2]
    /\ hist' = [hist EXCEPT ![d].wrote = @ \cup {k}, ![d].removed = @ \cup {k},
                            ![d].n = @ + 1, ![d].val[k] = ABSENT]
    /\ Record("deleteProperty", d, k, ABSENT, ABSENT, "", TRUE, {})
    /\ UNCHANGED <<revoked, nDrafts, regs, proxies, calls, stack, meta>>

\* objectTraps.has: prop in source(target)
Has(d, k) ==
    /\ CanTrap(d)
    /\ Record("has", d, k, ABSENT, ABSENT, "", In(heap[source(states, d)], k), {})
    /\ UNCHANGED <<heap, states, revoked, nDrafts, regs, proxies, calls, stack, meta, hist>>

\* objectTraps.ownKeys: Reflect.ownKeys(source(target))
OwnKeys(d) ==
    /\ CanTrap(d)
    /\ Record("ownKeys", d, "", ABSENT, ABSENT, "", FALSE, OwnKeysOf(heap[source(states, d)]))
    /\ UNCHANGED <<heap, states, revoked, nDrafts, regs, proxies, calls, stack, meta, hist>>

\* getOwnPropertyDescriptor(state, prop): res is the descriptor's value
\* (ABSENT when there is no descriptor), flag its configurable attribute.
GetOwnPropertyDescriptor(d, k) ==
    /\ CanTrap(d)
    /\ LET s == states[d]
           fromProxies == ~s.modified /\ has(s.proxies, k)
           value == IF s.modified THEN heap[s.copy].f[k]
                    ELSE IF fromProxies THEN s.proxies[k] ELSE heap[s.base].f[k]
           isArray == ~fromProxies /\ heap[source(states, d)].kind = "array"
       IN Record("getOwnPropertyDescriptor", d, k, ABSENT, value, "",
                 value # ABSENT /\ ~(isArray /\ k = "length"), {})
    /\ UNCHANGED <<heap, states, revoked, nDrafts, regs, proxies, calls, stack, meta, hist>>

\* A defineProperty trap that accepts the definition as a change.
DefineProperty_marks(d) ==
    /\ CanTrap(d)
    /\ LET mc == markChanged(states, heap, d) IN states' = mc[1] /\ heap' = mc[2]
    /\ Record("defineProperty", d, "", ABSENT, ABSENT, "", TRUE, {})
    /\ UNCHANGED <<revoked, nDrafts, regs, proxies, calls, stack, meta, hist>>

\* defineProperty()
DefineProperty(d) ==
    /\ CanTrap(d)
    /\ Record("defineProperty", d, "", ABSENT, ABSENT, "Unsupported", FALSE, {})
    /\ UNCHANGED <<heap, states, revoked, nDrafts, regs, proxies, calls, stack, meta, hist>>

\* objectTraps.setPrototypeOf()
SetPrototypeOf(d) ==
    /\ CanTrap(d)
    /\ Record("setPrototypeOf", d, "", ABSENT, ABSENT, "Unsupported", FALSE, {})
    /\ UNCHANGED <<heap, states, revoked, nDrafts, regs, proxies, calls, stack, meta, hist>>

TrapNames == {"get", "set", "deleteProperty", "has", "ownKeys", "getOwnPropertyDescriptor"}

\* Any operation on a proxy that p.revoke() was called on throws a
\* TypeError before a trap runs.
UseRevoked(d, op) ==
    /\ Running /\ opsLeft > 0
    /\ d \in Used /\ revoked[d]
    /\ op \in TrapNames
    /\ Record(op, d, "", ABSENT, ABSENT, "TypeError", FALSE, {})
    /\ UNCHANGED <<heap, states, revoked, nDrafts, regs, proxies, calls, stack, meta, hist>>

\* ------------------------------------------------------------- finalize
\* finalize(value) of ./common. acc carries the heap and the draft states
\* as they are rewritten, the plain containers already walked, and whether
\* a revoked proxy was met (reading through it throws).
RECURSIVE finalize(_, _)
RECURSIVE finalizeFields(_, _, _)

finalize(v, acc) ==
    IF acc.err THEN [val |-> v, acc |-> acc]
    ELSE IF v[1] = "d"
    THEN LET d == v[2] IN
         IF revoked[d] THEN [val |-> v, acc |-> [acc EXCEPT !.err = TRUE]]
         ELSE IF acc.st[d].modified
         THEN IF acc.st[d].finalized
              THEN [val |-> Obj(acc.st[d].copy), acc |-> acc]
              ELSE LET a1 == [acc EXCEPT !.st[d].finalized = TRUE]
                       a2 == finalizeFields(acc.st[d].copy, Keys, a1)
                   IN [val |-> Obj(acc.st[d].copy), acc |-> a2]
         ELSE [val |-> Obj(acc.st[d].base), acc |-> acc]
    ELSE IF v[1] = "o"
    THEN IF v[2] \in acc.seen THEN [val |-> v, acc |-> acc]
         ELSE [val |-> v,
               acc |-> finalizeFields(v[2], Keys, [acc EXCEPT !.seen = @ \cup {v[2]}])]
    ELSE [val |-> v, acc |-> acc]

finalizeFields(o, ks, acc) ==
    IF ks = {} THEN acc
    ELSE LET k == CHOOSE x \in ks : TRUE
             r == finalize(acc.hp[o].f[k], acc)
             a1 == IF r.val = acc.hp[o].f[k] THEN r.acc
                   ELSE [r.acc EXCEPT !.hp[o].f[k] = r.val]
         IN finalizeFields(o, ks \ {k}, a1)

\* -------------------------------------------------------- produceProxy
Idle == {c \in CallIds : calls[c].pc = "idle"}
StartBases == {1, 2}

\* produceProxy entry: save `proxies`, start a new array, create the
\* root proxy, call the producer.
Start(b) ==
    /\ Running
    /\ Idle # {}
    /\ b \in StartBases
    /\ nDrafts < MaxDrafts
    /\ LET c == CHOOSE x \in Idle : \A y \in Idle : x <= y IN
       /\ calls' = [calls EXCEPT ![c] = [NoCall EXCEPT !.pc = "mutate", !.base = b,
                                           !.root = nDrafts + 1, !.prev = proxies]]
       /\ proxies' = c
       /\ regs' = [regs EXCEPT ![c] = <<nDrafts + 1>>]
       /\ stack' = Append(stack, c)
       /\ nDrafts' = nDrafts + 1
       /\ states' = [states EXCEPT ![nDrafts + 1] = createState(0, b)]
       /\ meta' = [meta EXCEPT ![nDrafts + 1] = [key |-> "", call |-> c, during |-> stack',
                                                 pm |-> FALSE]]
    /\ UNCHANGED <<heap, revoked, opsLeft, last, hist>>

\* What a producer returns: nothing, a primitive, or a draft it holds.
ReturnVals == {UNDEF, Prim(2)} \cup {Draft(i) : i \in Used}

\* The choice without the test of the root's modified flag.
finalizeTarget_noCheck(root, ret, rootModified) ==
    IF ret # UNDEF /\ ret # Draft(root) THEN ret ELSE Draft(root)

\* Which value produceProxy finalizes; ABSENT when it throws
\* RETURNED_AND_MODIFIED_ERROR instead.
finalizeTarget(root, ret, rootModified) ==
    IF ret # UNDEF /\ ret # Draft(root)
    THEN IF rootModified THEN ABSENT ELSE ret
    ELSE Draft(root)

\* A result taken from the state without walking it.
callFinalize_source(t, hp, st) ==
    [val |-> IF t[1] = "d" THEN Obj(source(st, t[2])) ELSE t,
     acc |-> [hp |-> hp, st |-> st, seen |-> {}, err |-> FALSE]]

\* result = finalize(returnValue) / result = finalize(rootProxy)
callFinalize(t, hp, st) == finalize(t, [hp |-> hp, st |-> st, seen |-> {}, err |-> FALSE])

\* The producer returns v; produceProxy checks it and calls finalize.
Return(v) ==
    /\ stack # <<>> /\ calls[Top].pc = "mutate"
    /\ v \in ReturnVals
    /\ LET c == Top
           t == finalizeTarget(calls[c].root, v, states[calls[c].root].modified)
           r == callFinalize(t, heap, states)
       IN IF t = ABSENT
          THEN /\ calls' = [calls EXCEPT ![c].pc = "throwing", ![c].ret = v,
                                         ![c].err = "ReturnedAndModified"]
               /\ UNCHANGED <<heap, states>>
          ELSE /\ heap' = r.acc.hp
               /\ states' = r.acc.st
               /\ calls' = IF r.acc.err
                           THEN [calls EXCEPT ![c].pc = "throwing", ![c].ret = v,
                                              ![c].err = "TypeError",
                                              ![c].target = t, ![c].nfin = @ + 1]
                           ELSE [calls EXCEPT ![c].pc = "finalized", ![c].ret = v,
                                              ![c].result = r.val,
                                              ![c].target = t, ![c].nfin = @ + 1]
    /\ UNCHANGED <<revoked, nDrafts, regs, proxies, stack, opsLeft, last, meta, hist>>

\* The producer throws.
ProducerThrow ==
    /\ stack # <<>> /\ calls[Top].pc = "mutate"
    /\ calls' = [calls EXCEPT ![Top].pc = "throwing", ![Top].err = "ProducerError"]
    /\ UNCHANGED <<heap, states, revoked, nDrafts, regs, proxies, stack, opsLeft, last, meta, hist>>

\* A revocation loop that starts one entry late.
revokeAll_tail(rv, reg) == [d \in DraftIds |-> rv[d] \/ \E i \in 2 .. Len(reg) : reg[i] = d]

\* each(proxies, (_, p) => p.revoke())
revokeAll(rv, reg) == [d \in DraftIds |-> rv[d] \/ \E i \in 1 .. Len(reg) : reg[i] = d]

\* A finally block that leaves `proxies` as it is.
restore_none(c) == proxies

\* finally { proxies = previousProxies }
restore(c) == calls[c].prev

\* Normal exit: revoke all proxies, return result, run the finally block.
Exit ==
    /\ stack # <<>> /\ calls[Top].pc = "finalized"
    /\ revoked' = revokeAll(revoked, regs[proxies])
    /\ proxies' = restore(Top)
    /\ calls' = [calls EXCEPT ![Top].pc = "done"]
    /\ stack' = SubSeq(stack, 1, Len(stack) - 1)
    /\ UNCHANGED <<heap, states, nDrafts, regs, opsLeft, last, meta, hist>>

\* Exit by an exception: only the finally block runs.
Rethrow ==
    /\ stack # <<>> /\ calls[Top].pc = "throwing"
    /\ proxies' = restore(Top)
    /\ calls' = [calls EXCEPT ![Top].pc = "failed"]
    /\ stack' = SubSeq(stack, 1, Len(stack) - 1)
    /\ UNCHANGED <<heap, states, revoked, nDrafts, regs, opsLeft, last, meta, hist>>

Next ==
    \/ \E b \in StartBases : Start(b)
    \/ \E d \in DraftIds, k \in Keys : Get(d, k)
    \/ \E d \in DraftIds, k \in Keys, v \in WriteVals : Set(d, k, v)
    \/ \E d \in DraftIds, k \in Keys : DeleteProperty(d, k)
    \/ \E d \in DraftIds, k \in Keys : Has(d, k)
    \/ \E d \in DraftIds : OwnKeys(d)
    \/ \E d \in DraftIds, k \in Keys : GetOwnPropertyDescriptor(d, k)
    \/ \E d \in DraftIds : DefineProperty(d)
    \/ \E d \in DraftIds : SetPrototypeOf(d)
    \/ \E d \in DraftIds, op \in TrapNames : UseRevoked(d, op)
    \/ \E v \in ReturnVals : Return(v)
    \/ ProducerThrow
    \/ Exit
    \/ Rethrow

\* A producer that reads, writes and removes, and also writes containers
\* it has built around primitives or drafts.
NextFresh ==
    \/ \E b \in StartBases : Start(b)
    \/ \E d \in DraftIds, k \in Keys : Get(d, k)
    \/ \E d \in DraftIds, k \in Keys, v \in WriteVals : Set(d, k, v)
    \/ \E d \in DraftIds, k \in Keys, inner \in FreshInner : SetFresh(d, k, inner)
    \/ \E d \in DraftIds, k \in Keys : DeleteProperty(d, k)
    \/ \E v \in ReturnVals : Return(v)
    \/ Exit
    \/ Rethrow

\* A producer that writes and removes through its drafts, the values
\* written being primitives or containers it has built from primitives,
\* and returns nothing.
PlainVals == {Prim(1), Prim(2), UNDEF}
SetPlain(d, k, v) == v \in PlainVals /\ Set(d, k, v)
SetFreshPlain(d, k) == SetFresh(d, k, Prim(2))
ReturnNothing == Return(UNDEF)

NextPlain ==
    \/ \E b \in StartBases : Start(b)
    \/ \E d \in DraftIds, k \in Keys : Get(d, k)
    \/ \E d \in DraftIds, k \in Keys, v \in PlainVals : SetPlain(d, k, v)
    \/ \E d \in DraftIds, k \in Keys : SetFreshPlain(d, k)
    \/ \E d \in DraftIds, k \in Keys : DeleteProperty(d, k)
    \/ ReturnNothing
    \/ Exit

Spec == Init /\ [][Next]_vars
SpecPlain == InitPlain /\ [][NextPlain]_vars
SpecNested == InitNested /\ [][Next]_vars
SpecFresh == Init /\ [][NextFresh]_vars

\* ------------------------------------------------------------ the claims
Range(q) == {q[i] : i \in 1 .. Len(q)}

RECURSIVE Ancestors(_)
\* The draft states above d, nearest first, up to the root.
Ancestors(d) == IF states[d].parent = 0 THEN {} ELSE {states[d].parent} \cup Ancestors(states[d].parent)

RECURSIVE RootOf(_)
RootOf(d) == IF states[d].parent = 0 THEN d ELSE RootOf(states[d].parent)

\* The drafts of the tree under the root draft of call c.
Tree(c) == {d \in Used : RootOf(d) = calls[c].root}
Exited(c) == calls[c].pc \in {"done", "failed"}
Returned(c) == calls[c].pc \in {"finalized", "done"}

\* The value found in the result of the call of d's tree by following,
\* from the result, the keys that led from the root draft to d.
RECURSIVE ResultAt(_, _)
ResultAt(c, d) ==
    IF states[d].parent = 0 THEN calls[c].result
    ELSE LET up == ResultAt(c, states[d].parent) IN
         IF up[1] = "o" THEN heap[up[2]].f[meta[d].key] ELSE ABSENT

\* C1: whatever is done through the drafts of a produce call, and after
\* its finalization, every container of the base graph has the keys and
\* the values it had before the call.
C1_BaseUnchanged == \A o \in BaseObjs : heap[o] = BaseHeap[o]

\* C1 witness: a call has returned after a write or remove through a child
\* draft and a remove somewhere.
C1_Witness ==
    /\ calls[1].pc = "done"
    /\ \E d \in Used : states[d].parent # 0 /\ hist[d].n > 0 /\ hist[d].removed # {}

\* The only write or remove made through the drafts of call c is one
\* write (not a no-op) through d.
SingleWrite(c, d) ==
    /\ d \in Tree(c)
    /\ hist[d].n = 1 /\ hist[d].removed = {}
    /\ \A e \in Used \ {d} : hist[e].n = 0

\* Key k of x leads to the written node d, or is the written key.
OnWritePath(d, x, k) ==
    \/ x = d /\ k \in hist[d].wrote
    \/ \E y \in {d} \cup Ancestors(d) : states[y].parent = x /\ meta[y].key = k

\* C2: after one write to a nested key by a producer that returns
\* nothing, every container from the root to the written node is a new
\* container in the result, and every entry off the write path is
\* identical to the one base holds.
C2_PathCopiedRestShared ==
    \A c \in CallIds : \A d \in Used :
        (Returned(c) /\ calls[c].ret = UNDEF /\ SingleWrite(c, d)) =>
            \A x \in {d} \cup Ancestors(d) :
                LET r == ResultAt(c, x) IN
                /\ r[1] = "o"
                /\ r[2] \notin BaseObjs
                /\ heap[r[2]].kind = BaseHeap[states[x].base].kind
                /\ \A k \in Keys :
                      OnWritePath(d, x, k) \/ heap[r[2]].f[k] = BaseHeap[states[x].base].f[k]

\* C2 witness: the call has returned after a single write two levels
\* below the root (three containers on the path).
C2_Witness ==
    \E d \in Used :
        /\ calls[1].pc = "done" /\ calls[1].ret = UNDEF /\ SingleWrite(1, d)
        /\ Cardinality(Ancestors(d)) = 2

\* C4: a producer that only reads, queries and writes no-ops leaves
\* every draft state unmodified and without a copy, allocates nothing, and
\* when it returns nothing the result is base itself.
C4_NoOpsKeepBase ==
    (\A d \in Used : hist[d].n = 0) =>
        /\ \A d \in Used : ~states[d].modified /\ states[d].copy = 0
        /\ \A o \in ObjIds \ BaseObjs : heap[o].kind = "free"
        /\ \A c \in CallIds :
              (Returned(c) /\ calls[c].ret = UNDEF) => calls[c].result = Obj(calls[c].base)

\* C4 witness: the call has returned nothing after a read created a child
\* draft and the last trap wrote that child draft back to its key.
C4_Witness ==
    /\ calls[1].pc = "done" /\ calls[1].ret = UNDEF
    /\ \A d \in Used : hist[d].n = 0
    /\ last.op = "set" /\ last.v[1] = "d"

\* No key on the way from the root draft to d was written or removed, so
\* d is still where the read that created it found it.
Attached(d) ==
    \A x \in {d} \cup Ancestors(d) :
        states[x].parent # 0 => meta[x].key \notin hist[states[x].parent].wrote

\* C5: once a key is removed through a draft (and not written again), the
\* draft state and all its ancestors are modified and the copy lacks the
\* key, whether or not base had it; and the result of a producer that
\* returns nothing or the root draft has, where the node is, a new
\* container without the key.
C5_RemoveEscalates ==
    \A d \in Used : \A k \in hist[d].removed :
        /\ states[d].modified
        /\ \A a \in Ancestors(d) : states[a].modified
        /\ states[d].copy \in ObjIds \ BaseObjs
        /\ heap[states[d].copy].f[k] = ABSENT
        /\ \A c \in CallIds :
              (/\ Returned(c) /\ calls[c].ret \in {UNDEF, Draft(calls[c].root)}
               /\ d \in Tree(c) /\ Attached(d)) =>
                  LET r == ResultAt(c, d) IN
                  /\ r[1] = "o"
                  /\ r[2] \notin BaseObjs
                  /\ heap[r[2]].f[k] = ABSENT

\* C5 witness: the call has returned after the removal, through a child
\* draft, of a key its base does not have.
C5_Witness ==
    \E d \in Used : \E k \in hist[d].removed :
        /\ calls[1].pc = "done" /\ calls[1].ret = UNDEF
        /\ states[d].parent # 0 /\ Attached(d)
        /\ BaseHeap[states[d].base].f[k] = ABSENT

\* The step in which the producer of call c returns a value.
ReturnStep(c) ==
    /\ calls[c].pc = "mutate"
    /\ calls'[c].pc \in {"finalized", "throwing"}
    /\ calls'[c].err # "ProducerError"

\* The plain value a draft or a primitive stands for.
PlainOf(v) ==
    IF v[1] = "d"
    THEN IF states[v[2]].modified THEN Obj(states[v[2]].copy) ELSE Obj(states[v[2]].base)
    ELSE v

\* C6: when the producer returns a value other than undefined and the root
\* draft, produce throws ReturnedAndModified and gives no result if the
\* root is modified (as it is once any draft of the tree was written or
\* removed through), and finalizes the returned value otherwise; when the
\* producer returns undefined or the root draft, produce finalizes the
\* root draft.
C6_ReturnRule ==
    [][\A c \in CallIds : ReturnStep(c) =>
        LET v == calls'[c].ret
            root == calls[c].root
            other == v # UNDEF /\ v # Draft(root)
            escalated == \E d \in Tree(c) : hist[d].n > 0
        IN /\ (other /\ (states[root].modified \/ escalated)) =>
                 /\ calls'[c].pc = "throwing"
                 /\ calls'[c].err = "ReturnedAndModified"
                 /\ calls'[c].result = ABSENT
                 /\ calls'[c].nfin = 0
                 /\ heap' = heap /\ states' = states
           /\ (other /\ ~states[root].modified) =>
                 /\ calls'[c].target = v
                 /\ calls'[c].nfin = 1
                 /\ calls'[c].pc = "finalized" => calls'[c].result = PlainOf(v)
           /\ ~other =>
                 /\ calls'[c].target = Draft(root)
                 /\ calls'[c].nfin = 1
                 /\ calls'[c].pc = "finalized" => calls'[c].result = PlainOf(Draft(root))
      ]_vars

\* C6 witness: ReturnedAndModified was thrown although every write went
\* through a child draft, none through the root draft.
C6_Witness ==
    \E c \in CallIds :
        /\ calls[c].err = "ReturnedAndModified"
        /\ hist[calls[c].root].n = 0
        /\ \E d \in Tree(c) : hist[d].n > 0

\* The call that was innermost when draft d was created.
InnerCall(d) == meta[d].during[Len(meta[d].during)]
CreatedIn(c) == {d \in Used : InnerCall(d) = c}

\* C7: when a produce call has exited, normally or by an error, every
\* draft created during it is revoked.
C7_RevokedOnEveryExit ==
    \A c \in CallIds : Exited(c) => \A d \in CreatedIn(c) : revoked[d]

\* A trap was invoked, or refused, in this step.
TrapStep == opsLeft' = opsLeft - 1

\* C8: when a produce call has returned normally every draft created
\* during it, root or child, is in its registry and revoked, and every
\* operation through a revoked draft throws and changes nothing.
C8_RevokedAfterReturn ==
    [][/\ \A d \in Used' :
             /\ d \in Range(regs'[InnerCall(d)'])
             /\ calls'[InnerCall(d)'].pc = "done" => revoked'[d]
       /\ (TrapStep /\ revoked[last'.d]) =>
             /\ last'.err = "TypeError"
             /\ UNCHANGED <<heap, states, revoked, nDrafts, regs, proxies, meta, hist>>
      ]_vars

\* C8 witness: after the normal return a child draft was used and the
\* use threw.
C8_Witness ==
    /\ last.d \in Used /\ states[last.d].parent # 0
    /\ calls[InnerCall(last.d)].pc = "done"
    /\ revoked[last.d] /\ last.err = "TypeError"

\* Call c was started by the producer of another call.
Nested(c) == calls[c].root # 0 /\ Len(meta[calls[c].root].during) >= 2

\* C9: with nested calls, a draft is in the registry of the call that was
\* innermost when it was created and in no other, it is revoked exactly
\* when that call has returned, `proxies` is the registry of the innermost
\* call in progress, and a call that has returned has run its one finalize
\* while the calls still in progress have run none.
C9_NestedRegistries ==
    /\ \A d \in Used :
          /\ d \in Range(regs[InnerCall(d)])
          /\ \A c \in CallIds \ {InnerCall(d)} : d \notin Range(regs[c])
          /\ revoked[d] <=> calls[InnerCall(d)].pc = "done"
    /\ stack # <<>> => proxies = Top
    /\ \A c \in CallIds :
          /\ Returned(c) => calls[c].nfin = 1 /\ calls[c].target \in {calls[c].ret, Draft(calls[c].root)}
          /\ calls[c].pc = "mutate" => calls[c].nfin = 0 /\ calls[c].result = ABSENT

\* C9 witness: the outer call read a child draft, ran an inner call to
\* its normal return, read another child draft, and returned.
C9_Witness ==
    \E c \in CallIds : \E d1, d2 \in Used :
        /\ Nested(c) /\ calls[c].pc = "done" /\ calls[1].pc = "done"
        /\ InnerCall(d1) = 1 /\ InnerCall(d2) = 1
        /\ states[d1].parent # 0 /\ states[d2].parent # 0
        /\ d1 < calls[c].root /\ calls[c].root < d2

\* The child drafts created for key k of draft d.
ChildrenAt(d, k) == {x \in Used : states[x].parent = d /\ meta[x].key = k}

\* C10: as long as key k of a draft was not written or removed, at most
\* one child draft exists for it, and a read of k, where base holds a
\* plain container, returns that child draft, before and after the draft
\* was escalated.
C10_SameChildDraft ==
    /\ \A d \in Used : \A k \in Keys \ hist[d].wrote : Cardinality(ChildrenAt(d, k)) <= 1
    /\ (/\ last.op = "get" /\ last.err = ""
        /\ last.k \notin hist[last.d].wrote
        /\ BaseHeap[states[last.d].base].f[last.k][1] = "o") =>
            \E x \in ChildrenAt(last.d, last.k) : last.res = Draft(x)

\* C10 witness: a read returned the child draft that an earlier read had
\* created before the draft was escalated.
C10_Witness ==
    /\ last.op = "get" /\ last.res[1] = "d"
    /\ states[last.d].modified
    /\ last.res[2] \in ChildrenAt(last.d, last.k)
    /\ ~meta[last.res[2]].pm
    /\ last.k \notin hist[last.d].wrote

RECURSIVE ReachFrom(_, _)
\* The containers reachable from the containers in todo.
ReachFrom(todo, seen) ==
    IF todo = {} THEN seen
    ELSE LET o == CHOOSE x \in todo : TRUE
             next == {heap[o].f[k][2] : k \in {j \in Keys : heap[o].f[j][1] = "o"}}
         IN ReachFrom((todo \cup next) \ (seen \cup {o}), seen \cup {o})
Reach(v) == IF v[1] = "o" THEN ReachFrom({v[2]}, {}) ELSE {}

\* v is plain at every depth: neither a draft nor a container that holds
\* one, directly or further down.
DraftFree(v) == v[1] # "d" /\ \A o \in Reach(v) : \A k \in Keys : heap[o].f[k][1] # "d"

\* C11: the result of a call that exits normally holds no draft at any
\* depth: drafts in a modified copy, drafts written to other keys and
\* drafts inside a container the producer built are replaced by plain
\* values.
C11_ResultDraftFree == \A c \in CallIds : Returned(c) => DraftFree(calls[c].result)

\* C11 witness: the call returned after the producer wrote a container it
\* built around a child draft, and wrote a draft to a key of another draft.
C11_Witness ==
    /\ calls[1].pc = "done"
    /\ \E o \in FreshObjs : o \in Reach(calls[1].result) /\ heap[o].f["a"][1] = "o"
    /\ nDrafts >= 2

\* Call c is past its producer, which returned the draft d of its own
\* tree, d not being the root draft.
ReturnedSubDraft(c, d) ==
    /\ calls[c].pc \in {"finalized", "throwing", "done", "failed"}
    /\ d \in Tree(c) /\ d # calls[c].root
    /\ calls[c].ret = Draft(d)

\* An effective write or remove went through a draft outside the subtree
\* of d, at a key that does not lead to d.
SiblingChange(c, d) ==
    \E e \in Tree(c) \ {d} :
        /\ d \notin Ancestors(e)
        /\ IF e \in Ancestors(d)
           THEN e = states[d].parent /\ (hist[e].wrote \cup hist[e].removed) \ {meta[d].key} # {}
           ELSE hist[e].n > 0

\* C12 as stated: when the producer returns a sub-draft that is not the
\* root, the call yields the value of that subtree and the changes made to
\* its siblings in the same call are discarded.
C12_SiblingChangesDiscarded ==
    \A c \in CallIds : \A d \in DraftIds :
        (ReturnedSubDraft(c, d) /\ SiblingChange(c, d)) =>
            /\ Returned(c)
            /\ calls[c].result = Obj(source(states, d))

\* C12 amended: when the producer returns a sub-draft that is not the
\* root, the call yields the value of that subtree only if no effective
\* write or remove was made through any draft of the call, and the value
\* is then the subtree's base; after any such change, to a sibling or to
\* the subtree itself, the call raises ReturnedAndModified and nothing is
\* finalized.
C12_SubDraftReturn ==
    \A c \in CallIds : \A d \in DraftIds :
        ReturnedSubDraft(c, d) =>
            IF \E e \in Tree(c) : hist[e].n > 0
            THEN /\ ~Returned(c)
                 /\ calls[c].err = "ReturnedAndModified"
                 /\ calls[c].nfin = 0
                 /\ calls[c].result = ABSENT
            ELSE /\ Returned(c)
                 /\ calls[c].target = Draft(d)
                 /\ calls[c].result = Obj(states[d].base)

\* C12 witness: the call exited normally with the base of the returned
\* sub-draft as its result, another sub-draft having been handed out.
C12_Witness ==
    \E d \in DraftIds :
        /\ ReturnedSubDraft(1, d) /\ calls[1].pc = "done"
        /\ calls[1].result = Obj(states[d].base)
        /\ \E e \in Tree(1) \ {d, calls[1].root} : d \notin Ancestors(e)

\* The step is a set or deleteProperty through draft d.
WriteStep(d) == TrapStep /\ last'.d = d /\ last'.op \in {"set", "deleteProperty"} /\ last'.err = ""

\* C13: modified goes from false to true at most once and never back, also
\* when a later write restores the original value; copy is absent exactly
\* while modified is false; it is allocated at the step where modified
\* becomes true, as a new container with the kind and the entries of base
\* (child drafts handed out before and the entry written by the step
\* aside), and is never replaced afterwards; a write through a state that
\* is modified already allocates nothing and changes no state.
C13_ModifiedOnceCopyOnce ==
    /\ [](\A d \in DraftIds : (states[d].copy = 0) <=> ~states[d].modified)
    /\ [][\A d \in Used :
            /\ states[d].modified =>
                  /\ states'[d].modified
                  /\ states'[d].copy = states[d].copy
                  /\ WriteStep(d) =>
                        /\ \A x \in DraftIds : states'[x].modified = states[x].modified
                                                /\ states'[x].copy = states[x].copy
                        /\ \A o \in ObjIds \ {states[d].copy} : heap'[o] = heap[o]
            /\ (~states[d].modified /\ states'[d].modified) =>
                  LET c == states'[d].copy
                      b == states[d].base
                  IN /\ c # 0 /\ c # b /\ heap[c].kind = "free"
                     /\ \A x \in DraftIds \ {d} : states'[x].copy # c
                     /\ heap'[c].kind = heap[b].kind
                     /\ heap'[b] = heap[b]
                     /\ \A k \in Keys :
                           (states[d].proxies[k] = ABSENT /\ ~(last'.d = d /\ last'.k = k))
                               => heap'[c].f[k] = heap[b].f[k]
       ]_vars

\* C13 witness: a state that is still modified, with its one copy, after a
\* second write put the original value back.
C13_Witness ==
    \E d \in Used :
        /\ states[d].modified /\ hist[d].n >= 2
        /\ last.op = "set" /\ last.d = d
        /\ heap[states[d].copy].f = heap[states[d].base].f

\* No key on the way from the root draft to d was written or removed
\* through the draft that holds it.
OnPath(d) ==
    \A x \in {d} \cup Ancestors(d) :
        states[x].parent # 0 =>
            meta[x].key \notin hist[states[x].parent].wrote \cup hist[states[x].parent].removed

\* C14: a child draft handed out before its parent was modified stays
\* attached: at the step that escalates a state its copy holds, at every
\* key with a cached child draft that the step does not write itself, that
\* child draft; and a write through such a child, made before or after
\* writes to sibling keys of the parent, is in the result of a producer
\* that returns nothing or the root draft.
C14_ChildStaysAttached ==
    /\ [][\A d \in Used :
            (~states[d].modified /\ states'[d].modified) =>
                \A k \in Keys :
                    (states[d].proxies[k] # ABSENT /\ ~(last'.d = d /\ last'.k = k))
                        => /\ states[d].proxies[k][1] = "d"
                           /\ heap'[states'[d].copy].f[k] = states[d].proxies[k]
       ]_vars
    /\ [](\A c \in CallIds : \A x \in Used :
            (/\ Returned(c) /\ calls[c].ret \in {UNDEF, Draft(calls[c].root)}
             /\ x \in Tree(c) /\ x # calls[c].root
             /\ ~meta[x].pm /\ OnPath(x) /\ hist[x].n > 0) =>
                /\ ResultAt(c, x) = Obj(states[x].copy)
                /\ (last.op = "set" /\ last.d = x /\ last.v[1] \in {"p", "u"}) =>
                      heap[states[x].copy].f[last.k] = last.v)

\* C14 witness: the call returned after a write through a child draft that
\* was handed out before its parent was modified, and a later write to a
\* sibling key of the parent.
C14_Witness ==
    \E x \in Used \ {calls[1].root} :
        /\ calls[1].pc = "done" /\ calls[1].ret = UNDEF
        /\ ~meta[x].pm /\ OnPath(x) /\ hist[x].n > 0
        /\ last.op = "set" /\ last.d = states[x].parent /\ last.k # meta[x].key
        /\ ResultAt(1, x) = Obj(states[x].copy)

\* The step is the entry of call c / the exit of call c on any path.
EntryStep(c) == calls[c].pc = "idle" /\ calls'[c].pc = "mutate"
ExitStep(c) == calls[c].pc \in {"finalized", "throwing"} /\ calls'[c].pc \in {"done", "failed"}

\* C15: when a call exits, normally or by an error of the producer or by
\* ReturnedAndModified, the active registry is again the one that was
\* active at its entry, with the contents it had then: the registry saved
\* at entry is never reassigned, a registry changes only while it is the
\* active one, and calls are entered and left in stack order.
C15_RegistryRestored ==
    [][\A c \in CallIds :
          /\ EntryStep(c) =>
                /\ calls'[c].prev = proxies
                /\ proxies' = c
                /\ stack' = Append(stack, c)
                /\ \A x \in CallIds \ {c} : regs'[x] = regs[x]
          /\ calls[c].pc \in {"mutate", "finalized", "throwing"} => calls'[c].prev = calls[c].prev
          /\ (regs'[c] # regs[c] /\ ~EntryStep(c)) =>
                /\ proxies = c /\ proxies' = c
                /\ \E d \in DraftIds : regs'[c] = Append(regs[c], d)
          /\ ExitStep(c) =>
                /\ proxies = c
                /\ stack = Append(stack', c)
                /\ proxies' = calls[c].prev
                /\ proxies' = IF stack' = <<>> THEN 0 ELSE stack'[Len(stack')]
                /\ regs' = regs
      ]_vars

\* C15 witness: an inner call left by ReturnedAndModified, and the outer
\* producer, back on its own registry, created a draft after that.
C15_Witness ==
    \E c \in CallIds :
        /\ Nested(c) /\ calls[c].pc = "failed" /\ calls[c].err = "ReturnedAndModified"
        /\ calls[c].prev = 1 /\ proxies = 1 /\ calls[1].pc = "mutate"
        /\ \E d \in Range(regs[1]) : d > calls[c].root

\* C16: in every call the root draft exists before the producer runs,
\* finalize runs at most once, at the step that ends the producer, on the
\* root draft when the producer returned nothing or the root draft and on
\* the returned value otherwise; no draft of the call is revoked before
\* its finalize has completed; and finalize does not run when the producer
\* raises or when ReturnedAndModified is raised, that is when a value
\* other than the root draft is returned from a modified root.
C16_StepOrder ==
    /\ [](\A c \in CallIds :
            LET root == calls[c].root
                other == calls[c].ret \notin {ABSENT, UNDEF, Draft(root)}
            IN /\ calls[c].nfin <= 1
               /\ calls[c].pc = "mutate" =>
                     /\ root \in Used /\ regs[c][1] = root
                     /\ calls[c].nfin = 0 /\ calls[c].target = ABSENT
               /\ calls[c].nfin = 1 =>
                     calls[c].target = IF other THEN calls[c].ret ELSE Draft(root)
               /\ calls[c].err \in {"ReturnedAndModified", "ProducerError"} =>
                     calls[c].nfin = 0 /\ calls[c].result = ABSENT
               /\ \A d \in Range(regs[c]) :
                     revoked[d] => calls[c].pc = "done" /\ calls[c].nfin = 1)
    /\ [][\A c \in CallIds :
            /\ (/\ ReturnStep(c) /\ states[calls[c].root].modified
                /\ calls'[c].ret \notin {UNDEF, Draft(calls[c].root)}) =>
                  /\ calls'[c].nfin = 0 /\ calls'[c].err = "ReturnedAndModified"
                  /\ heap' = heap /\ states' = states
            /\ calls'[c].nfin # calls[c].nfin =>
                  /\ calls[c].pc = "mutate" /\ calls'[c].pc \in {"finalized", "throwing"}
                  /\ revoked' = revoked
            /\ (\E d \in Range(regs[c]) : revoked'[d] /\ ~revoked[d]) =>
                  /\ calls[c].pc = "finalized" /\ calls[c].nfin = 1
                  /\ heap' = heap /\ states' = states
       ]_vars

\* C16 witness: the call is done, its one finalize ran on the returned
\* value and not on the root draft, and its drafts are revoked.
C16_Witness ==
    /\ calls[1].pc = "done" /\ calls[1].nfin = 1
    /\ calls[1].ret = Prim(2) /\ calls[1].target = Prim(2)
    /\ Len(regs[1]) >= 2 /\ \A d \in Range(regs[1]) : revoked[d]

\* The keys of d whose last effective change was a write / a remove.
Written(d) == hist[d].wrote \ hist[d].removed
Removed(d) == hist[d].removed
Queries == {"has", "ownKeys", "getOwnPropertyDescriptor"}

\* C17: has and keys answer from the effective value: for a key last
\* written, has is true and keys contains it; for a key last removed, has
\* is false and keys lacks it; on a draft with no effective write or remove
\* both agree with base; a read that follows a write of a primitive to the
\* same key returns it; and has, keys and describe change no draft state
\* and no container.
C17_QueriesReflectEffective ==
    /\ [](last.err = "" =>
            LET d == last.d
                b == BaseHeap[states[d].base]
            IN /\ last.op = "has" =>
                     /\ last.k \in Written(d) => last.flag
                     /\ last.k \in Removed(d) => ~last.flag
                     /\ hist[d].n = 0 => (last.flag <=> In(b, last.k))
                     /\ last.flag <=> In(heap[source(states, d)], last.k)
               /\ last.op = "ownKeys" =>
                     /\ Written(d) \subseteq last.keys
                     /\ Removed(d) \cap last.keys = {}
                     /\ hist[d].n = 0 => last.keys = OwnKeysOf(b)
                     /\ last.keys = OwnKeysOf(heap[source(states, d)]))
    /\ [][TrapStep =>
            /\ (last'.op \in Queries) => (states' = states /\ heap' = heap /\ hist' = hist)
            /\ (/\ last.op = "set" /\ last.err = "" /\ last.v[1] \in {"p", "u"}
                /\ last'.op = "get" /\ last'.err = ""
                /\ last'.d = last.d /\ last'.k = last.k) => last'.res = last.v
       ]_vars

\* C17 witness: has answered false for a key of base that was removed
\* through the draft after it had been written.
C17_Witness ==
    /\ last.op = "has" /\ last.err = "" /\ ~last.flag
    /\ last.k \in Removed(last.d)
    /\ hist[last.d].n = 2
    /\ In(BaseHeap[states[last.d].base], last.k)

\* C18: defineProperty and setPrototypeOf on a draft fail with the
\* Unsupported error and change nothing: every draft state (modified, copy,
\* children), every container and the registries are as before the
\* attempt, and a later read or write through the same draft in the same
\* call works as if the attempt had not been made.
C18_UnsupportedChangesNothing ==
    /\ [][(TrapStep /\ last'.op \in {"defineProperty", "setPrototypeOf"}) =>
            /\ last'.err = "Unsupported"
            /\ states' = states /\ heap' = heap
            /\ revoked' = revoked /\ regs' = regs /\ proxies' = proxies
            /\ calls' = calls /\ hist' = hist
       ]_vars
    /\ [][(/\ TrapStep /\ last.err = "Unsupported" /\ last'.d = last.d
           /\ last'.op \in {"get", "set", "has"} /\ ~revoked[last.d]) =>
            /\ last'.err \in {"", "TypeError"}
            /\ last'.err = "TypeError" => proxies = 0
            /\ (last'.op = "set" /\ last'.err = "" /\ ~NoOpWrite(last.d, last'.k, last'.v)) =>
                  /\ states'[last.d].modified
                  /\ heap'[states'[last.d].copy].f[last'.k] = last'.v
            /\ (last'.op = "has" /\ last'.err = "") =>
                  (last'.flag <=> In(heap[source(states, last.d)], last'.k))
       ]_vars

\* C18 witness: the attempt failed on a child draft that was modified
\* before, in a call whose producer is still running.
C18_Witness ==
    /\ last.op \in {"defineProperty", "setPrototypeOf"} /\ last.err = "Unsupported"
    /\ last.d \in Used /\ states[last.d].parent # 0
    /\ states[last.d].modified /\ hist[last.d].n = 1
    /\ calls[1].pc = "mutate" /\ ~revoked[last.d]

\* The container o as a deep clone of base has it: a container of the
\* base graph as it was at the start, any other as the producer built it.
RefCell(o) == IF o \in BaseObjs THEN BaseHeap[o] ELSE heap[o]

RECURSIVE DeepEqual(_, _)
\* The value r is structurally equal to the reference value v.
DeepEqual(r, v) ==
    IF r[1] = "o" /\ v[1] = "o"
    THEN /\ heap[r[2]].kind = RefCell(v[2]).kind
         /\ \A k \in Keys : DeepEqual(heap[r[2]].f[k], RefCell(v[2]).f[k])
    ELSE r = v

RECURSIVE EqualsClone(_, _)
\* The value r is structurally equal to the container that the handle d
\* stands for in a mutable deep clone of base after the same writes and
\* removes: a key written or removed through d holds what was last put
\* there, any other key holds what base holds, with the container behind a
\* handle read from that key changed in the same way.
EqualsClone(r, d) ==
    /\ r[1] = "o"
    /\ heap[r[2]].kind = BaseHeap[states[d].base].kind
    /\ \A k \in Keys :
          LET rv == heap[r[2]].f[k]
              bv == BaseHeap[states[d].base].f[k]
          IN IF k \in hist[d].wrote THEN DeepEqual(rv, hist[d].val[k])
             ELSE IF ChildrenAt(d, k) # {}
                  THEN EqualsClone(rv, CHOOSE x \in ChildrenAt(d, k) : TRUE)
                  ELSE DeepEqual(rv, bv)

\* C19: when a producer that writes primitives and containers it built,
\* removes keys, through drafts at any depth, and returns nothing, has
\* returned, the result is deeply equal to a mutable deep clone of base to
\* which the same writes and removes were applied.
C19_ResultEqualsMutatedClone ==
    \A c \in CallIds : Returned(c) => EqualsClone(calls[c].result, calls[c].root)

\* C19 witness: the call returned after a write through a child draft
\* and a write of a built container, both of them in the result.
C19_Witness ==
    /\ calls[1].pc = "done"
    /\ \E x \in Tree(1) \ {calls[1].root} : hist[x].n > 0 /\ OnPath(x)
    /\ hist[calls[1].root].n > 0
    /\ \E o \in FreshObjs : o \in Reach(calls[1].result)

\* C3: a modified draft state has a modified parent, hence modified
\* ancestors up to the root.
C3_UpwardClosure ==
    \A d \in Used : states[d].modified => \A a \in Ancestors(d) : states[a].modified

\* C3 witness: a draft two levels below the root is modified.
C3_Witness ==
    \E d \in Used : states[d].modified /\ Cardinality(Ancestors(d)) >= 2

====
